---- MODULE Spec2Model ----
(***************************************************************************)
(* Rotating-hexagon bounce game (React-Hexagon): the physics core          *)
(* (utils/physics.ts, utils/collision.ts), the host component              *)
(* (components/HexagonBounce.tsx) and its statistics panel                 *)
(* (components/StatsPanel.tsx) as a state machine.                         *)
(*                                                                         *)
(* Numbers.  A JavaScript number is modelled in decimal fixed point:       *)
(*   - lengths (px), speeds (px/s), times (s) and areas (px^2) carry       *)
(*     three decimals: the integer n stands for n / SCALE;                 *)
(*   - ratios, unit-vector components and sines/cosines carry six          *)
(*     decimals: the integer n stands for n / UNIT.                        *)
(* Every product and quotient is rounded to the nearest representable      *)
(* value (ties away from zero), the square root is rounded down.           *)
(***************************************************************************)
EXTENDS Integers, Sequences, FiniteSets, TLC

SCALE == 1000

UNIT == SCALE * SCALE

----------------------------------------------------------------------------
(* Fixed-point arithmetic.  A value that is used several times is passed   *)
(* as an operator argument, so that it is computed once.                   *)

Abs(a) == IF a < 0 THEN -a ELSE a

Sgn(a) == IF a < 0 THEN -1 ELSE IF a = 0 THEN 0 ELSE 1

\* round(n / d) for n >= 0, d > 0
RoundDiv(n, d) == (n + d \div 2) \div d

\* round(x * y / SCALE) for x, y >= 0, without forming the product x * y
MulAbs3(x, y) == x * (y \div SCALE) + RoundDiv(x * (y % SCALE), SCALE)

\* a * b for a length/speed/time/area a and a length/speed/time b, or for
\* any a and a three-decimal coefficient b: round(a * b / SCALE)
Mul3(a, b) == Sgn(a) * Sgn(b) * MulAbs3(Abs(a), Abs(b))

\* round((t * SCALE + u) / UNIT) for t, u >= 0
MulLow6(t, u) == t \div SCALE + RoundDiv((t % SCALE) * SCALE + u, UNIT)

\* round(x * y / UNIT) for x = x1 * SCALE + x0 and y = y1 * SCALE + y0
MulAbs6(x1, x0, y1, y0) == x1 * y1 + MulLow6(x1 * y0 + x0 * y1, x0 * y0)

\* a * b where b is a six-decimal ratio: round(a * b / UNIT)
Mul6(a, b) ==
    Sgn(a) * Sgn(b) *
    MulAbs6(Abs(a) \div SCALE, Abs(a) % SCALE, Abs(b) \div SCALE, Abs(b) % SCALE)

\* the k decimals of r / d (0 <= r < d) appended to acc, the last one rounded
\* to nearest
RECURSIVE Decimals(_, _, _, _)
Decimals(r, d, k, acc) ==
    IF k = 0 THEN acc + (IF 2 * r >= d THEN 1 ELSE 0)
    ELSE Decimals((10 * r) % d, d, k - 1, 10 * acc + ((10 * r) \div d))

\* a / b as a six-decimal ratio: round(a * UNIT / b), b # 0
Div6(a, b) ==
    Sgn(a) * Sgn(b) * Decimals(Abs(a) % Abs(b), Abs(b), 6, Abs(a) \div Abs(b))

\* a / b for an area a and a length b, as a length (three decimals):
\* round(a * SCALE / b), b # 0
Div3(a, b) ==
    Sgn(a) * Sgn(b) * Decimals(Abs(a) % Abs(b), Abs(b), 3, Abs(a) \div Abs(b))

\* floor(SCALE * x / y) for x >= 0, y > 0, without forming the product
ScaledQuotient(x, y) == (x \div y) * SCALE + ((x % y) * SCALE) \div y

\* Newton's iteration for floor(sqrt(SCALE * x)): y is the current estimate,
\* not below the root, and z the next one
RECURSIVE SqrtNewton(_, _, _)
SqrtNewton(x, y, z) ==
    IF z >= y THEN y ELSE SqrtNewton(x, z, (z + ScaledQuotient(x, z)) \div 2)

\* an estimate of sqrt(SCALE * x) from above, within a factor of four
SqrtEstimate(x) ==
    IF x < 16000 THEN (IF x < 1000 THEN (IF x < 64 THEN 253 ELSE 1000) ELSE 4000)
    ELSE IF x < 4096000 THEN (IF x < 256000 THEN 16000 ELSE 64000)
    ELSE IF x < 65536000 THEN 256000
    ELSE IF x < 1048576000 THEN 1024000
    ELSE 1465430

\* Math.sqrt of an area (three decimals), as a length (three decimals):
\* floor(sqrt(x * SCALE))
Sqrt3(x) == IF x <= 0 THEN 0 ELSE SqrtNewton(x, SqrtEstimate(x) + 1, SqrtEstimate(x))

\* Math.PI (six decimals)
PI == 3141593

\* the Horner form of the sine series over the divisors ks, in x2 = x * x
RECURSIVE SinSeries(_, _, _)
SinSeries(x2, ks, t) ==
    IF ks = << >> THEN t
    ELSE SinSeries(x2, Tail(ks), UNIT - RoundDiv(Mul6(x2, t), Head(ks)))

\* sin x for x in [-PI / 2, PI / 2]
SinReduced(x) == Mul6(x, SinSeries(Mul6(x, x), <<156, 110, 72, 42, 20, 6>>, UNIT))

\* an angle r in [-PI, PI) folded into [-PI / 2, PI / 2] with the same sine
FoldAngle(r) ==
    IF r > PI \div 2 THEN PI - r
    ELSE IF r < -(PI \div 2) THEN -PI - r
    ELSE r

\* Math.sin of an angle in radians (six decimals in, six decimals out)
Sin(a) == SinReduced(FoldAngle(((a + PI) % (2 * PI)) - PI))

\* Math.cos of an angle in radians (six decimals in, six decimals out)
Cos(a) == Sin(a + PI \div 2)

----------------------------------------------------------------------------
(* utils/physics.ts                                                        *)

\* PHYSICS_CONSTANTS (three decimals)
GRAVITY == 500000

FRICTION == 980

BOUNCE_DAMPING == 850

MIN_VELOCITY == 100

\* Vector.create
Vec(x, y) == [x |-> x, y |-> y]

\* Vector.add
VectorAdd(a, b) == [x |-> a.x + b.x, y |-> a.y + b.y]

\* Vector.subtract
VectorSubtract(a, b) == [x |-> a.x - b.x, y |-> a.y - b.y]

\* Vector.multiply by a three-decimal scalar (a time, a coefficient)
VectorMultiply(v, scalar) == [x |-> Mul3(v.x, scalar), y |-> Mul3(v.y, scalar)]

\* Vector.multiply of a unit vector (six decimals) by a length or speed
UnitMultiply(n, scalar) == [x |-> Mul6(scalar, n.x), y |-> Mul6(scalar, n.y)]

\* Vector.dot of a length/speed vector with a unit vector (six decimals)
VectorDot(a, n) == Mul6(a.x, n.x) + Mul6(a.y, n.y)

\* Vector.magnitude of a length/speed vector
VectorMagnitude(v) == Sqrt3(Mul3(v.x, v.x) + Mul3(v.y, v.y))

\* Vector.magnitude of a vector of ratios (six decimals), as a three-decimal
\* number
UnitMagnitude(n) == Sqrt3(SCALE * (Mul6(n.x, n.x) + Mul6(n.y, n.y)))

\* a faulty variant of NormalizeBy, which the property of degenerate inputs
\* must tell apart: a vector of length zero is given the direction (1, 0)
DefaultDirection(v, mag) ==
    IF mag = 0 THEN Vec(UNIT, 0) ELSE [x |-> Div6(v.x, mag), y |-> Div6(v.y, mag)]

\* Vector.normalize, lines 71-72, with the magnitude mag already computed
NormalizeBy(v, mag) ==
    IF mag = 0 THEN Vec(0, 0) ELSE [x |-> Div6(v.x, mag), y |-> Div6(v.y, mag)]

\* Vector.normalize of a length/speed vector: a unit vector (six decimals)
VectorNormalize(v) == NormalizeBy(v, VectorMagnitude(v))

\* Vector.normalize of a vector of ratios (six decimals)
UnitNormalize(n) == NormalizeBy(n, UnitMagnitude(n))

\* Vector.reflect, lines 92-93, with the normal already normalized
ReflectAbout(incident, normalizedNormal) ==
    VectorSubtract(incident,
        UnitMultiply(normalizedNormal, 2 * VectorDot(incident, normalizedNormal)))

\* Vector.reflect
VectorReflect(incident, normal) == ReflectAbout(incident, UnitNormalize(normal))

\* a faulty variant of ClampVelocity, which the rest-state property must
\* tell apart: a slow velocity is never set to zero
NeverSnapped(newVelocity) == newVelocity

\* updateBallPhysics, lines 112-114
ClampVelocity(newVelocity) ==
    IF VectorMagnitude(newVelocity) < MIN_VELOCITY THEN Vec(0, 0) ELSE newVelocity

\* a faulty variant of MoveBall, which the integrator reference must tell
\* apart: the position advances by the velocity the ball had before
MoveByOldVelocity(ball, newVelocity, deltaTime) ==
    [ball EXCEPT !.position = VectorAdd(ball.position,
                                        VectorMultiply(ball.velocity, deltaTime)),
                 !.velocity = newVelocity]

\* updateBallPhysics, lines 116-124
MoveBall(ball, newVelocity, deltaTime) ==
    [ball EXCEPT !.position = VectorAdd(ball.position,
                                        VectorMultiply(newVelocity, deltaTime)),
                 !.velocity = newVelocity]

\* updateBallPhysics
updateBallPhysics(ball, deltaTime) ==
    MoveBall(ball,
             ClampVelocity(VectorMultiply(
                 VectorAdd(ball.velocity, VectorMultiply(Vec(0, GRAVITY), deltaTime)),
                 FRICTION)),
             deltaTime)

\* handleWallCollision, lines 138-143: the unit perpendicular of the wall
WallNormal(wallStart, wallEnd) ==
    VectorNormalize(Vec(-(wallEnd.y - wallStart.y), wallEnd.x - wallStart.x))

\* handleWallCollision, line 147
WallMidpoint(wallStart, wallEnd) ==
    VectorMultiply(VectorAdd(wallStart, wallEnd), SCALE \div 2)

\* a faulty variant of TowardBall, which the orientation property must tell
\* apart: the normal is never turned
NeverTurned(wallNormal, ballDirection) == wallNormal

\* handleWallCollision, lines 148-153: the normal turned toward the ball
TowardBall(wallNormal, ballDirection) ==
    IF VectorDot(ballDirection, wallNormal) < 0
    THEN Vec(-wallNormal.x, -wallNormal.y)
    ELSE wallNormal

\* handleWallCollision, lines 138-153
OrientedNormal(ball, wallStart, wallEnd) ==
    TowardBall(WallNormal(wallStart, wallEnd),
               VectorSubtract(ball.position, WallMidpoint(wallStart, wallEnd)))

\* a faulty variant of NoCollision, which the no-op property must tell apart:
\* the early return is missing
NeverReturnsEarly(ball, distance) == FALSE

\* handleWallCollision, line 136: the early return
NoCollision(ball, distance) == distance > ball.radius

\* a faulty variant of DampedVelocity, which the speed bound must tell apart:
\* the reflected velocity is divided by the damping coefficient
AmplifiedVelocity(velocity, wallNormal) ==
    [x |-> (VectorReflect(velocity, wallNormal).x * SCALE) \div BOUNCE_DAMPING,
     y |-> (VectorReflect(velocity, wallNormal).y * SCALE) \div BOUNCE_DAMPING]

\* a faulty variant of DampedVelocity, which the reflection law must tell
\* apart: the velocity is damped but not reflected
UnreflectedVelocity(velocity, wallNormal) == VectorMultiply(velocity, BOUNCE_DAMPING)

\* handleWallCollision, lines 155-157
DampedVelocity(velocity, wallNormal) ==
    VectorMultiply(VectorReflect(velocity, wallNormal), BOUNCE_DAMPING)

\* handleWallCollision, lines 159-162
CorrectedPosition(ball, wallNormal, distance) ==
    VectorAdd(ball.position, UnitMultiply(wallNormal, ball.radius - distance))

\* handleWallCollision, lines 155-168, with the oriented normal
Bounce(ball, wallNormal, distance) ==
    [ball EXCEPT !.position = CorrectedPosition(ball, wallNormal, distance),
                 !.velocity = DampedVelocity(ball.velocity, wallNormal)]

\* handleWallCollision
handleWallCollision(ball, wallStart, wallEnd, distance) ==
    IF NoCollision(ball, distance) THEN ball
    ELSE Bounce(ball, OrientedNormal(ball, wallStart, wallEnd), distance)

\* createBall
createBall(x, y, radius) ==
    [position |-> Vec(x, y), velocity |-> Vec(0, 0), radius |-> radius]

----------------------------------------------------------------------------
(* utils/collision.ts                                                      *)

\* a faulty variant of Vertex, which the vertex property must tell apart:
\* sine and cosine exchanged, so the vertices run the other way round
MirroredVertex(centerX, centerY, radius, angle) ==
    Vec(centerX + Mul6(radius, Sin(angle)), centerY + Mul6(radius, Cos(angle)))

\* generateHexagonVertices, lines 43-45: the vertex at an angle
Vertex(centerX, centerY, radius, angle) ==
    Vec(centerX + Mul6(radius, Cos(angle)), centerY + Mul6(radius, Sin(angle)))

\* generateHexagonVertices, lines 41-46: the loop from i on; vertex i (0..5) is
\* the i+1-st element of the result
RECURSIVE VerticesFrom(_, _, _, _, _, _)
VerticesFrom(i, vertices, centerX, centerY, radius, rotation) ==
    IF i >= 6 THEN vertices
    ELSE VerticesFrom(i + 1,
             Append(vertices,
                    Vertex(centerX, centerY, radius, RoundDiv(PI, 3) * i + rotation)),
             centerX, centerY, radius, rotation)

\* generateHexagonVertices
generateHexagonVertices(centerX, centerY, radius, rotation) ==
    VerticesFrom(0, << >>, centerX, centerY, radius, rotation)

\* getHexagonEdges, lines 57-64: the loop from i on; edge i joins vertex i to
\* vertex (i + 1) mod length
RECURSIVE EdgesFrom(_, _, _)
EdgesFrom(i, edges, vertices) ==
    IF i >= Len(vertices) THEN edges
    ELSE EdgesFrom(i + 1,
                   Append(edges, [start |-> vertices[i + 1],
                                  end |-> vertices[((i + 1) % Len(vertices)) + 1]]),
                   vertices)

\* getHexagonEdges
getHexagonEdges(vertices) == EdgesFrom(0, << >>, vertices)

\* pointToLineSegmentDistance, lines 101-107: the length of (dx, dy)
Hypot(dx, dy) == Sqrt3(Mul3(dx, dx) + Mul3(dy, dy))

\* a faulty variant of ClampedDistance, which the segment-distance property
\* must tell apart: the projection is not kept within the segment
UnclampedDistance(A, B, C, D, param) == Hypot(A - Mul6(C, param), B - Mul6(D, param))

\* pointToLineSegmentDistance, lines 90-107: the distance to the closest point
\* of the segment, which is lineStart + param * (C, D) clamped to the segment;
\* (A, B) is the point relative to lineStart
ClampedDistance(A, B, C, D, param) ==
    IF param < 0 THEN Hypot(A, B)
    ELSE IF param > UNIT THEN Hypot(A - C, B - D)
    ELSE Hypot(A - Mul6(C, param), B - Mul6(D, param))

\* pointToLineSegmentDistance, lines 85-107
ProjectedDistance(A, B, C, D, dot, lenSq) ==
    IF lenSq = 0 THEN Hypot(A, B)
    ELSE ClampedDistance(A, B, C, D, Div6(dot, lenSq))

\* pointToLineSegmentDistance, lines 77-107
SegmentDistance(A, B, C, D) ==
    ProjectedDistance(A, B, C, D, Mul3(A, C) + Mul3(B, D), Mul3(C, C) + Mul3(D, D))

\* pointToLineSegmentDistance
pointToLineSegmentDistance(point, lineStart, lineEnd) ==
    SegmentDistance(point.x - lineStart.x, point.y - lineStart.y,
                    lineEnd.x - lineStart.x, lineEnd.y - lineStart.y)

\* a faulty variant of Closer, which the nearest-wall property must tell
\* apart: an edge at the same distance replaces the one found before
CloserOrEqual(best, edge, distance) ==
    IF best.inf \/ distance <= best.minDistance
    THEN [inf |-> FALSE, minDistance |-> distance, wall |-> edge]
    ELSE best

\* checkHexagonCollision, lines 136-139: the running minimum after an edge at
\* the given distance (best.inf stands for minDistance = Infinity)
Closer(best, edge, distance) ==
    IF best.inf \/ distance < best.minDistance
    THEN [inf |-> FALSE, minDistance |-> distance, wall |-> edge]
    ELSE best

\* checkHexagonCollision, lines 134-140: the loop over the edges from edge k on
RECURSIVE ClosestWall(_, _, _, _)
ClosestWall(ballPosition, edges, k, best) ==
    IF k > Len(edges) THEN best
    ELSE ClosestWall(ballPosition, edges, k + 1,
             Closer(best, edges[k],
                    pointToLineSegmentDistance(ballPosition, edges[k].start,
                                               edges[k].end)))

\* a faulty variant of HasCollision, which the collision test must tell
\* apart: touching the wall does not count
StrictlyCloser(minDistance, ballRadius) == minDistance < ballRadius

\* a faulty variant of HasCollision, which the determinism of the host must
\* tell apart: every ball is reported as colliding
AlwaysCollides(minDistance, ballRadius) == minDistance >= 0

\* checkHexagonCollision, line 154
HasCollision(minDistance, ballRadius) == minDistance <= ballRadius

\* checkHexagonCollision, lines 144-158: the result for the closest wall
\* (without one, the distance is Infinity: inf)
CollisionResult(best, ballRadius) ==
    IF best.inf
    THEN [hasCollision |-> FALSE, inf |-> TRUE, distance |-> 0,
          wallStart |-> Vec(0, 0), wallEnd |-> Vec(0, 0)]
    ELSE [hasCollision |-> HasCollision(best.minDistance, ballRadius), inf |-> FALSE,
          distance |-> best.minDistance,
          wallStart |-> best.wall.start, wallEnd |-> best.wall.end]

\* checkHexagonCollision
checkHexagonCollision(ballPosition, ballRadius, hexagonCenter, hexagonRadius, rotation) ==
    CollisionResult(
        ClosestWall(ballPosition,
                    getHexagonEdges(generateHexagonVertices(
                        hexagonCenter.x, hexagonCenter.y, hexagonRadius, rotation)),
                    1, [inf |-> TRUE, minDistance |-> 0, wall |-> << >>]),
        ballRadius)

\* constrainBallInsideHexagon, lines 220-236: the ball pushed toward the
\* center; random = (Math.random(), Math.random()), a pair of numbers in
\* [0, 1) with three decimals
SafePosition(ballPosition, directionToCenter, hexagonCenter, safeDistance, random) ==
    IF VectorMagnitude(directionToCenter) = 0
    THEN VectorAdd(ballPosition, Vec(random[1] - SCALE \div 2, random[2] - SCALE \div 2))
    ELSE VectorAdd(hexagonCenter,
                   UnitMultiply(VectorNormalize(directionToCenter), -safeDistance))

\* constrainBallInsideHexagon
constrainBallInsideHexagon(ballPosition, ballRadius, hexagonCenter, hexagonRadius, rotation, random) ==
    IF ~checkHexagonCollision(ballPosition, ballRadius, hexagonCenter,
                              hexagonRadius, rotation).hasCollision
    THEN ballPosition
    ELSE SafePosition(ballPosition, VectorSubtract(hexagonCenter, ballPosition),
                      hexagonCenter, hexagonRadius - ballRadius - 10 * SCALE, random)

\* a faulty variant of RayCrosses, which the center property must tell
\* apart: a vertex level with the point counts as above it at one end of an
\* edge and as below it at the other
UnevenRayCrosses(point, vi, vj) ==
    /\ (vi.y > point.y) # (vj.y >= point.y)
    /\ point.x < Div3(Mul3(vj.x - vi.x, point.y - vi.y), vj.y - vi.y) + vi.x

\* isPointInsideHexagon, lines 186-189: the ray from the point crosses the
\* edge from vertex vj to vertex vi
RayCrosses(point, vi, vj) ==
    /\ (vi.y > point.y) # (vj.y > point.y)
    /\ point.x < Div3(Mul3(vj.x - vi.x, point.y - vi.y), vj.y - vi.y) + vi.x

\* isPointInsideHexagon, lines 180-193: the loop from i on, j the index before
RECURSIVE InsideFrom(_, _, _, _, _)
InsideFrom(i, j, inside, point, vertices) ==
    IF i >= Len(vertices) THEN inside
    ELSE InsideFrom(i + 1, i,
                    IF RayCrosses(point, vertices[i + 1], vertices[j + 1])
                    THEN ~inside ELSE inside,
                    point, vertices)

\* isPointInsideHexagon, lines 177-195: ray casting over the vertices
InsidePolygon(point, vertices) == InsideFrom(0, Len(vertices) - 1, FALSE, point, vertices)

\* isPointInsideHexagon
isPointInsideHexagon(point, hexagonCenter, hexagonRadius, rotation) ==
    InsidePolygon(point, generateHexagonVertices(hexagonCenter.x, hexagonCenter.y,
                                                 hexagonRadius, rotation))

----------------------------------------------------------------------------
(* components/HexagonBounce.tsx                                            *)

\* Bounds of the model
MaxFrames == 6

MaxClicks == 3

MaxChanges == 2

\* gaps between two animation-frame timestamps, in milliseconds
FrameGaps == {16}

\* the canvas points the user clicks
ClickPoints == {Vec(100 * SCALE, 50 * SCALE)}

\* slider values the user picks (control panel, lines 77-120)
RotationSpeeds == {0}

HexagonRadii == {100 * SCALE}

BallRadii == {20 * SCALE}

\* values of (Math.random(), Math.random())
RandomPairs == {<<0, 0>>, <<999, 250>>}

DEFAULT_CONFIG ==
    [canvasWidth |-> 600 * SCALE, canvasHeight |-> 600 * SCALE,
     hexagonRadius |-> 200 * SCALE, rotationSpeed |-> 20000, ballRadius |-> 8 * SCALE]

VARIABLES
    ball,            \* useState<Ball>
    config,          \* useState<GameConfig>
    isPaused,        \* useState<boolean>
    rotation,        \* rotationRef.current (radians, six decimals)
    lastTime,        \* lastTimeRef.current (milliseconds)
    collisionCount,  \* collisionCountRef.current
    frames,          \* animation frames so far
    clicks,          \* canvas clicks so far
    changes,         \* control-panel operations so far
    last,            \* what the last step did (history)
    statsPanel,      \* the StatsPanel instance: its stats, its startTime and
                     \* the dependencies its effects last ran with
    clock            \* Date.now() (milliseconds), and how much of it was
                     \* spent playing (history)

vars == <<ball, config, isPaused, rotation, lastTime, collisionCount,
          frames, clicks, changes, last, statsPanel, clock>>

\* what the game itself never writes
panelVars == <<statsPanel, clock>>

\* the wall clock is followed for this many milliseconds
MaxClock == 3000

\* Date.now() when the StatsPanel is mounted
NowAtMount == 0

ClockAtMount == [now |-> NowAtMount, played |-> 0]

\* no effect has run yet
NoDeps == [ran |-> FALSE]

\* StatsPanel, lines 34-44: the two useState initialisers; totalTime and
\* startTime are kept in milliseconds
MountedPanel ==
    [stats |-> [score |-> 0, bounces |-> 0, maxSpeed |-> 0, currentSpeed |-> 0,
                totalTime |-> 0, collisions |-> 0],
     startTime |-> NowAtMount,
     deps |-> NoDeps]

\* the hexagon center used by gameLoop, handleConfigChange and resetBall
HexagonCenter(cfg) == Vec(cfg.canvasWidth \div 2, cfg.canvasHeight \div 2)

\* a faulty variant of StartPosition, which the reset property must tell
\* apart: the ball starts on the hexagon center
CenterPosition(cfg) == Vec(cfg.canvasWidth \div 2, cfg.canvasHeight \div 2)

\* the initial and the reset position of the ball
StartPosition(cfg) == Vec(cfg.canvasWidth \div 2, cfg.canvasHeight \div 2 - 50 * SCALE)

NoStep == [op |-> "none"]

Init ==
    /\ config = DEFAULT_CONFIG
    /\ ball = createBall(StartPosition(DEFAULT_CONFIG).x, StartPosition(DEFAULT_CONFIG).y,
                         DEFAULT_CONFIG.ballRadius)
    /\ isPaused = FALSE
    /\ rotation = 0
    /\ lastTime = 0
    /\ collisionCount = 0
    /\ frames = 0
    /\ clicks = 0
    /\ changes = 0
    /\ last = NoStep
    /\ statsPanel = MountedPanel
    /\ clock = ClockAtMount

\* a faulty variant of DeltaTime, which the frame-time property must tell
\* apart: the time since the last frame is passed on as it is
UnclampedDeltaTime(currentTime, lastT) ==
    IF lastT = 0 THEN 0 ELSE currentTime - lastT

\* gameLoop, lines 498-501 (milliseconds, which read as seconds with three
\* decimals)
DeltaTime(currentTime, lastT) ==
    IF lastT = 0 THEN 0
    ELSE IF currentTime - lastT < 16 THEN currentTime - lastT ELSE 16

\* gameLoop, lines 531-549: the ball after the collision, if any
ResolveCollision(updatedBall, collision) ==
    [updatedBall |-> updatedBall,
     collision |-> collision,
     ball |-> IF collision.hasCollision
              THEN handleWallCollision(updatedBall, collision.wallStart,
                                       collision.wallEnd, collision.distance)
              ELSE updatedBall]

\* gameLoop, lines 517-549
DetectCollision(updatedBall, cfg, rot) ==
    ResolveCollision(updatedBall,
        checkHexagonCollision(updatedBall.position, updatedBall.radius,
                              HexagonCenter(cfg), cfg.hexagonRadius, rot))

\* a faulty variant of TickBall, which the ordering property must tell
\* apart: the collision is detected and resolved on the previous ball, and
\* the result is integrated afterwards
TickBallDetectFirst(prevBall, deltaTime, cfg, rot) ==
    [updatedBall |-> [prevBall EXCEPT !.radius = cfg.ballRadius],
     collision |-> checkHexagonCollision(prevBall.position, cfg.ballRadius,
                                         HexagonCenter(cfg), cfg.hexagonRadius, rot),
     ball |-> updateBallPhysics(
                  DetectCollision([prevBall EXCEPT !.radius = cfg.ballRadius], cfg, rot).ball,
                  deltaTime)]

\* gameLoop, lines 510-552: the state updater of one unpaused tick, with the
\* rotation already advanced
TickBall(prevBall, deltaTime, cfg, rot) ==
    DetectCollision([updateBallPhysics(prevBall, deltaTime) EXCEPT !.radius = cfg.ballRadius],
                    cfg, rot)

\* a faulty variant of Tick, which the counter property must tell apart:
\* every tick is counted, colliding or not
TickCounted(deltaTime, rot) ==
    \E tick \in {TickBall(ball, deltaTime, config, rot)} :
        /\ rotation' = rot
        /\ ball' = tick.ball
        /\ collisionCount' = collisionCount + 1
        /\ last' = [op |-> "tick", deltaTime |-> deltaTime,
                    prevBall |-> ball, prevRotation |-> rotation,
                    updatedBall |-> tick.updatedBall, collision |-> tick.collision]

\* gameLoop, lines 505-553: one unpaused tick
Tick(deltaTime, rot) ==
    \E tick \in {TickBall(ball, deltaTime, config, rot)} :
        /\ rotation' = rot
        /\ ball' = tick.ball
        /\ collisionCount' = IF tick.collision.hasCollision
                             THEN collisionCount + 1 ELSE collisionCount
        /\ last' = [op |-> "tick", deltaTime |-> deltaTime,
                    prevBall |-> ball, prevRotation |-> rotation,
                    updatedBall |-> tick.updatedBall, collision |-> tick.collision]

\* gameLoop: one animation frame at timestamp lastTime + gap
Frame(gap) ==
    /\ frames < MaxFrames
    /\ frames' = frames + 1
    /\ lastTime' = lastTime + gap
    /\ IF isPaused
       THEN /\ UNCHANGED <<ball, rotation, collisionCount>>
            /\ last' = [op |-> "paused"]
       ELSE Tick(DeltaTime(lastTime + gap, lastTime), rotation + config.rotationSpeed)
    /\ UNCHANGED panelVars
    /\ UNCHANGED <<config, isPaused, clicks, changes>>

\* a faulty variant of ClickBall, which the impulse property must tell
\* apart: the direction to the click is added without being normalized
ClickBallUnnormalized(prevBall, click) ==
    [prevBall EXCEPT !.velocity =
        VectorAdd(prevBall.velocity,
                  VectorMultiply(VectorSubtract(click, prevBall.position), 300))]

\* handleCanvasClick, lines 672-687
ClickBall(prevBall, click) ==
    [prevBall EXCEPT !.velocity =
        VectorAdd(prevBall.velocity,
                  UnitMultiply(VectorNormalize(VectorSubtract(click, prevBall.position)),
                               300 * SCALE))]

\* a faulty variant of Click, which the pause property must tell apart: the
\* click is accepted while paused too
ClickAlsoPaused(click) ==
    /\ clicks < MaxClicks
    /\ clicks' = clicks + 1
    /\ ball' = ClickBall(ball, click)
    /\ last' = [op |-> "click", click |-> click, prevBall |-> ball]
    /\ UNCHANGED panelVars
    /\ UNCHANGED <<config, isPaused, rotation, lastTime, collisionCount, frames, changes>>

\* handleCanvasClick
Click(click) ==
    /\ clicks < MaxClicks
    /\ clicks' = clicks + 1
    /\ ball' = IF isPaused THEN ball ELSE ClickBall(ball, click)
    /\ last' = [op |-> "click", click |-> click, prevBall |-> ball]
    /\ UNCHANGED panelVars
    /\ UNCHANGED <<config, isPaused, rotation, lastTime, collisionCount, frames, changes>>

\* a faulty variant of ConfigBall, which the slider property must tell
\* apart: the ball is constrained and resized on every change
ConfigBallAlways(prevBall, updated, hexagonRadiusSet, rot, random) ==
    [prevBall EXCEPT
        !.position = constrainBallInsideHexagon(prevBall.position, updated.ballRadius,
                         HexagonCenter(updated), updated.hexagonRadius, rot, random),
        !.radius = updated.ballRadius]

\* handleConfigChange, lines 609-630: the ball after a change of newConfig
ConfigBall(prevBall, updated, hexagonRadiusSet, rot, random) ==
    IF hexagonRadiusSet
    THEN [prevBall EXCEPT
            !.position = constrainBallInsideHexagon(prevBall.position, updated.ballRadius,
                             HexagonCenter(updated), updated.hexagonRadius, rot, random),
            !.radius = updated.ballRadius]
    ELSE prevBall

\* handleConfigChange({[key]: value}) from one slider
ConfigChange(key, value) ==
    /\ changes < MaxChanges
    /\ changes' = changes + 1
    /\ config' = [config EXCEPT ![key] = value]
    /\ \E random \in RandomPairs :
          ball' = ConfigBall(ball, [config EXCEPT ![key] = value],
                             key = "hexagonRadius" /\ value # 0, rotation, random)
    /\ last' = [op |-> "config", key |-> key]
    /\ UNCHANGED panelVars
    /\ UNCHANGED <<isPaused, rotation, lastTime, collisionCount, frames, clicks>>

\* resetBall
ResetBall ==
    /\ changes < MaxChanges
    /\ changes' = changes + 1
    /\ \E random \in RandomPairs :
          \E newPosition \in {constrainBallInsideHexagon(StartPosition(config),
                                  config.ballRadius, HexagonCenter(config),
                                  config.hexagonRadius, rotation, random)} :
              ball' = createBall(newPosition.x, newPosition.y, config.ballRadius)
    /\ last' = [op |-> "reset"]
    /\ UNCHANGED panelVars
    /\ UNCHANGED <<config, isPaused, rotation, lastTime, collisionCount, frames, clicks>>

\* onTogglePause
TogglePause ==
    /\ changes < MaxChanges
    /\ changes' = changes + 1
    /\ isPaused' = ~isPaused
    /\ last' = [op |-> "pause"]
    /\ UNCHANGED panelVars
    /\ UNCHANGED <<ball, config, rotation, lastTime, collisionCount, frames, clicks>>

Next ==
    \/ \E gap \in FrameGaps : Frame(gap)
    \/ \E click \in ClickPoints : Click(click)
    \/ \E value \in RotationSpeeds : ConfigChange("rotationSpeed", value)
    \/ \E value \in HexagonRadii : ConfigChange("hexagonRadius", value)
    \/ \E value \in BallRadii : ConfigChange("ballRadius", value)
    \/ ResetBall
    \/ TogglePause

Spec == Init /\ [][Next]_vars

(***************************************************************************)
(* components/StatsPanel.tsx.  The panel receives ball.velocity,           *)
(* collisionCountRef.current and !isPaused from the host.  Its times are   *)
(* kept in milliseconds: (Date.now() - startTime) / 1000 seconds, with     *)
(* three decimals, is the integer Date.now() - startTime.                  *)
(***************************************************************************)

\* getCurrentSpeed
getCurrentSpeed(ballVelocity) == VectorMagnitude(ballVelocity)

\* the statistics effect, line 73: currentTime
CurrentTime(isPlaying, now, startTime, totalTime) ==
    IF isPlaying THEN now - startTime ELSE totalTime

\* the statistics effect, lines 75-100: the updater passed to setStats
UpdatedStats(prevStats, currentSpeed, count, isPlaying, currentTime) ==
    [currentSpeed |-> currentSpeed,
     maxSpeed |-> IF currentSpeed > prevStats.maxSpeed
                  THEN currentSpeed ELSE prevStats.maxSpeed,
     bounces |-> IF count > prevStats.collisions THEN count ELSE prevStats.bounces,
     collisions |-> IF count > prevStats.collisions
                    THEN count ELSE prevStats.collisions,
     score |-> IF count > prevStats.collisions
               THEN prevStats.score + 10 + currentSpeed \div (10 * SCALE)
               ELSE prevStats.score,
     totalTime |-> IF isPlaying THEN currentTime ELSE prevStats.totalTime]

\* the start-time effect, lines 108-112
ResetStartTime(isPlaying, totalTime, now, startTime) ==
    IF isPlaying /\ totalTime = 0 THEN now ELSE startTime

\* the dependency lists of the two effects, lines 103 and 112
StatsDeps(ballVelocity, count, isPlaying, startTime, totalTime) ==
    <<ballVelocity, count, isPlaying, startTime, totalTime>>

StartDeps(isPlaying, totalTime) == <<isPlaying, totalTime>>

\* an effect runs after the first render and after a render in which one of
\* its dependencies differs from the render before; ballVelocity is compared
\* as an object, so a fresh object with the same coordinates also counts
RunsStats(deps, rendered, fresh) == ~deps.ran \/ fresh \/ deps.stats # rendered

RunsStart(deps, rendered) == ~deps.ran \/ deps.start # rendered

\* one render of the panel and the effects that follow it; both effects read
\* the stats and the startTime of that render
Commit(panel, ballVelocity, count, isPlaying, now, fresh) ==
    [stats |->
        IF RunsStats(panel.deps, StatsDeps(ballVelocity, count, isPlaying,
                                           panel.startTime, panel.stats.totalTime),
                     fresh)
        THEN UpdatedStats(panel.stats, getCurrentSpeed(ballVelocity), count, isPlaying,
                          CurrentTime(isPlaying, now, panel.startTime,
                                      panel.stats.totalTime))
        ELSE panel.stats,
     startTime |->
        IF RunsStart(panel.deps, StartDeps(isPlaying, panel.stats.totalTime))
        THEN ResetStartTime(isPlaying, panel.stats.totalTime, now, panel.startTime)
        ELSE panel.startTime,
     deps |-> [ran |-> TRUE,
               stats |-> StatsDeps(ballVelocity, count, isPlaying,
                                   panel.startTime, panel.stats.totalTime),
               start |-> StartDeps(isPlaying, panel.stats.totalTime)]]

\* the host renders <StatsPanel ballVelocity={ball.velocity}
\* collisionCount={collisionCountRef.current} isPlaying={!isPaused} />
PanelCommit ==
    /\ \E fresh \in BOOLEAN :
          statsPanel' = Commit(statsPanel, ball.velocity, collisionCount, ~isPaused,
                               clock.now, fresh)
    /\ UNCHANGED <<ball, config, isPaused, rotation, lastTime, collisionCount,
                   frames, clicks, changes, last, clock>>

\* the panel has been rendered with the present props and state, and its
\* effects have run: React renders after every state change of the host and
\* of the panel, before the next event is handled
Settled ==
    /\ statsPanel.deps.ran
    /\ statsPanel.deps.stats = StatsDeps(ball.velocity, collisionCount, ~isPaused,
                                         statsPanel.startTime,
                                         statsPanel.stats.totalTime)
    /\ statsPanel.deps.start = StartDeps(~isPaused, statsPanel.stats.totalTime)

\* the wall clock read by Date.now() advances by d milliseconds
Elapse(d) ==
    /\ clock.now + d <= MaxClock
    /\ clock' = [now |-> clock.now + d,
                 played |-> IF isPaused THEN clock.played ELSE clock.played + d]
    /\ UNCHANGED <<ball, config, isPaused, rotation, lastTime, collisionCount,
                   frames, clicks, changes, last, statsPanel>>

----------------------------------------------------------------------------
(* The physics functions on their own: one call of a function of          *)
(* utils/physics.ts or utils/collision.ts on arguments drawn from the      *)
(* sets below.  The variable ball holds the argument and then the      *)
(* result; last records the call.                                          *)

\* rounding allowance of the three-decimal arithmetic (0.01 px, 0.01 px/s)
Tol == 10

\* walls: the bottom edge of the default hexagon (rotation 0) as
\* getHexagonEdges yields it, the same edge with its ends swapped, the edge
\* from vertex 0 to vertex 1, and a wall of length zero
TestWalls ==
    {[start |-> Vec(400000, 473205), end |-> Vec(200000, 473205)],
     [start |-> Vec(200000, 473205), end |-> Vec(400000, 473205)],
     [start |-> Vec(500000, 300000), end |-> Vec(400000, 473205)],
     [start |-> Vec(200000, 473205), end |-> Vec(200000, 473205)]}

\* ball centers: 8 px and 4 px inside the bottom edge, on it, 4 px outside
\* it, beside its end (200, 473.205), 8 px inside the edge from vertex 0 to
\* vertex 1, the start position, the hexagon center, vertex 1, and 26.8 px
\* outside the bottom edge
TestPositions ==
    {Vec(300000, 465205), Vec(300000, 469205), Vec(300000, 473205),
     Vec(300000, 477205), Vec(197000, 469205), Vec(443071, 382603),
     Vec(300000, 250000), Vec(300000, 300000), Vec(400000, 473205),
     Vec(300000, 500000)}

\* velocities: at rest, below MIN_VELOCITY, and three faster ones
TestVelocities ==
    {Vec(0, 0), Vec(60, -50), Vec(0, 100000), Vec(100000, -200000),
     Vec(-300000, 50000)}

TestRadii == {4000, 8000}

\* distances a caller may pass besides the measured one
TestDistances == {0, 9000}

\* frame times passed to updateBallPhysics (seconds, three decimals)
TestDeltaTimes == {0, 8, 16}

\* hexagons for generateHexagonVertices and isPointInsideHexagon: centers,
\* radii, and rotations of 0, 0.02 rad, 30, 90, 180, -60 and 390 degrees
TestCenters == {Vec(300000, 300000), Vec(-50000, 75000)}

TestHexagonRadii == {100000, 200000, 280000}

TestAngles == {0, 20000, 523599, 1570796, 3141593, -1047198, 6806784}

\* segments for pointToLineSegmentDistance: upright through the origin, an
\* edge of the default hexagon, its bottom edge, and one of zero length
TestSegments ==
    {[start |-> Vec(0, -5000), end |-> Vec(0, 5000)],
     [start |-> Vec(500000, 300000), end |-> Vec(400000, 473205)],
     [start |-> Vec(400000, 473205), end |-> Vec(200000, 473205)],
     [start |-> Vec(200000, 473205), end |-> Vec(200000, 473205)]}

\* points for pointToLineSegmentDistance: on the upright segment, beside it,
\* beyond either end of it, and near the edges of the hexagon
TestPoints ==
    {Vec(0, 0), Vec(10000, 0), Vec(3000, 9000), Vec(-4000, -8000),
     Vec(300000, 465205), Vec(443071, 382603)}

\* rotations of the hexagon for checkHexagonCollision
TestRotations == {0, 20000}

TestBalls ==
    {[position |-> p, velocity |-> v, radius |-> r] :
        p \in TestPositions, v \in TestVelocities, r \in TestRadii}

InitPhysics ==
    /\ ball \in TestBalls
    /\ rotation \in TestRotations
    /\ config = DEFAULT_CONFIG
    /\ isPaused = FALSE
    /\ lastTime = 0
    /\ collisionCount = 0
    /\ frames = 0
    /\ clicks = 0
    /\ changes = 0
    /\ last = NoStep
    /\ statsPanel = MountedPanel
    /\ clock = ClockAtMount

\* one call handleWallCollision(ball, wallStart, wallEnd, distance)
CallHandleWallCollision(wallStart, wallEnd, distance) ==
    /\ last = NoStep
    /\ ball' = handleWallCollision(ball, wallStart, wallEnd, distance)
    /\ last' = [op |-> "resolve", ball |-> ball, wallStart |-> wallStart,
                wallEnd |-> wallEnd, distance |-> distance]
    /\ UNCHANGED panelVars
    /\ UNCHANGED <<config, isPaused, rotation, lastTime, collisionCount,
                   frames, clicks, changes>>

\* one call checkHexagonCollision(ball.position, ball.radius, ...) on the
\* hexagon of the configuration at the current rotation
CallCheckHexagonCollision ==
    /\ last = NoStep
    /\ last' = [op |-> "detect",
                collision |-> checkHexagonCollision(ball.position, ball.radius,
                                  HexagonCenter(config), config.hexagonRadius, rotation)]
    /\ UNCHANGED panelVars
    /\ UNCHANGED <<ball, config, isPaused, rotation, lastTime, collisionCount,
                   frames, clicks, changes>>

\* one call constrainBallInsideHexagon(ball.position, ball.radius, ...) on the
\* hexagon of the configuration, the ball placed at the returned position
CallConstrainBallInsideHexagon(random) ==
    /\ last = NoStep
    /\ ball' = [ball EXCEPT !.position =
                    constrainBallInsideHexagon(ball.position, ball.radius,
                        HexagonCenter(config), config.hexagonRadius, rotation, random)]
    /\ last' = [op |-> "constrain", position |-> ball.position]
    /\ UNCHANGED panelVars
    /\ UNCHANGED <<config, isPaused, rotation, lastTime, collisionCount,
                   frames, clicks, changes>>

\* one call generateHexagonVertices(center.x, center.y, radius, angle)
CallGenerateHexagonVertices(center, radius, angle) ==
    /\ last = NoStep
    /\ last' = [op |-> "vertices", center |-> center, radius |-> radius,
                rotation |-> angle,
                vertices |-> generateHexagonVertices(center.x, center.y, radius, angle)]
    /\ UNCHANGED panelVars
    /\ UNCHANGED <<ball, config, isPaused, rotation, lastTime, collisionCount,
                   frames, clicks, changes>>

\* one call pointToLineSegmentDistance(point, lineStart, lineEnd)
CallPointToLineSegmentDistance(point, lineStart, lineEnd) ==
    /\ last = NoStep
    /\ last' = [op |-> "distance", point |-> point, lineStart |-> lineStart,
                lineEnd |-> lineEnd,
                distance |-> pointToLineSegmentDistance(point, lineStart, lineEnd)]
    /\ UNCHANGED panelVars
    /\ UNCHANGED <<ball, config, isPaused, rotation, lastTime, collisionCount,
                   frames, clicks, changes>>

\* one call updateBallPhysics(ball, deltaTime)
CallUpdateBallPhysics(deltaTime) ==
    /\ last = NoStep
    /\ ball' = updateBallPhysics(ball, deltaTime)
    /\ last' = [op |-> "step", ball |-> ball, deltaTime |-> deltaTime]
    /\ UNCHANGED panelVars
    /\ UNCHANGED <<config, isPaused, rotation, lastTime, collisionCount,
                   frames, clicks, changes>>

\* the points asked about a hexagon: its center, a point halfway to vertex 0
\* of the unrotated hexagon, and one beyond it
PointsAbout(center, radius) ==
    {center, Vec(center.x + radius \div 2, center.y), Vec(center.x + 2 * radius, center.y)}

\* one call isPointInsideHexagon(point, center, radius, angle)
CallIsPointInsideHexagon(point, center, radius, angle) ==
    /\ last = NoStep
    /\ last' = [op |-> "inside", point |-> point, center |-> center,
                radius |-> radius, rotation |-> angle,
                inside |-> isPointInsideHexagon(point, center, radius, angle)]
    /\ UNCHANGED panelVars
    /\ UNCHANGED <<ball, config, isPaused, rotation, lastTime, collisionCount,
                   frames, clicks, changes>>

NextPhysics ==
    \/ \E wall \in TestWalls :
          \E distance \in TestDistances \cup
                  {pointToLineSegmentDistance(ball.position, wall.start, wall.end)} :
              CallHandleWallCollision(wall.start, wall.end, distance)
    \/ CallCheckHexagonCollision
    \/ \E deltaTime \in TestDeltaTimes : CallUpdateBallPhysics(deltaTime)
    \/ \E random \in RandomPairs : CallConstrainBallInsideHexagon(random)
    \/ \E wall \in TestWalls :
          CallPointToLineSegmentDistance(ball.position, wall.start, wall.end)
    \/ CallIsPointInsideHexagon(ball.position, HexagonCenter(config),
                                config.hexagonRadius, rotation)

SpecPhysics == InitPhysics /\ [][NextPhysics]_vars

\* The geometry functions of utils/collision.ts on their own: one call on
\* arguments drawn from the sets above, the game untouched.

NextGeometry ==
    \/ \E center \in TestCenters, radius \in TestHexagonRadii, angle \in TestAngles :
           CallGenerateHexagonVertices(center, radius, angle)
    \/ \E point \in TestPoints, segment \in TestSegments :
           CallPointToLineSegmentDistance(point, segment.start, segment.end)
    \/ \E center \in TestCenters, radius \in TestHexagonRadii, angle \in TestAngles :
           \E point \in PointsAbout(center, radius) :
               CallIsPointInsideHexagon(point, center, radius, angle)

SpecGeometry == Init /\ [][NextGeometry]_vars

\* Repeated calls of updateBallPhysics with deltaTime = 0 on one ball: the
\* caller keeps calling, for as long as it runs.
InitRest ==
    /\ ball \in {b \in TestBalls : b.position = Vec(300 * SCALE, 300 * SCALE)}
    /\ rotation = 0
    /\ config = DEFAULT_CONFIG
    /\ isPaused = FALSE
    /\ lastTime = 0
    /\ collisionCount = 0
    /\ frames = 0
    /\ clicks = 0
    /\ changes = 0
    /\ last = NoStep
    /\ statsPanel = MountedPanel
    /\ clock = ClockAtMount

\* the caller passes the ball it holds to the next call
PassBall == last' = [op |-> "rest", ball |-> ball]

\* the next call updateBallPhysics(ball, 0) on the ball the previous call returned
CallUpdateBallPhysicsAtRest ==
    /\ PassBall
    /\ ball' = updateBallPhysics(ball, 0)
    /\ UNCHANGED panelVars
    /\ UNCHANGED <<config, isPaused, rotation, lastTime, collisionCount,
                   frames, clicks, changes>>

NextRest == CallUpdateBallPhysicsAtRest

\* The caller does not stop before the calls have stopped changing the ball:
\* a ball that differs from the one passed last is passed eventually.
SpecRest == InitRest /\ [][NextRest]_vars /\ WF_last(PassBall)

\* The game over short sessions with frames at uneven times: the browser
\* may deliver two frames at one timestamp or stall for a second.
MaxHostFrames == 3

MaxHostClicks == 1

MaxHostChanges == 2

\* gaps between two animation-frame timestamps, in milliseconds: none, a
\* short one, and a stall
HostFrameGaps == {0, 5, 1000}

HostClickPoints == {Vec(100 * SCALE, 50 * SCALE)}

HostRotationSpeeds == {100000}

HostHexagonRadii == {100 * SCALE}

HostBallRadii == {20 * SCALE}

NextHost ==
    \/ \E gap \in HostFrameGaps : frames < MaxHostFrames /\ Frame(gap)
    \/ \E click \in HostClickPoints : clicks < MaxHostClicks /\ Click(click)
    \/ \E value \in HostRotationSpeeds :
           changes < MaxHostChanges /\ ConfigChange("rotationSpeed", value)
    \/ \E value \in HostHexagonRadii :
           changes < MaxHostChanges /\ ConfigChange("hexagonRadius", value)
    \/ \E value \in HostBallRadii :
           changes < MaxHostChanges /\ ConfigChange("ballRadius", value)
    \/ changes < MaxHostChanges /\ ResetBall
    \/ changes < MaxHostChanges /\ TogglePause

SpecHost == Init /\ [][NextHost]_vars

\* The handlers of the game on their own: one animation frame, click or
\* control-panel operation from a game state drawn from the sets below.

\* configurations: the default one and the ends of the size sliders
HandlerConfigs ==
    {DEFAULT_CONFIG} \cup
    {[DEFAULT_CONFIG EXCEPT !.hexagonRadius = hexagonRadius, !.ballRadius = ballRadius] :
        hexagonRadius \in {100 * SCALE, 280 * SCALE}, ballRadius \in {4 * SCALE, 20 * SCALE}}

\* ball centers: the start position, the hexagon center, and 8 px inside
\* the bottom edge and the edge from vertex 0 to vertex 1 of the default hexagon
HandlerPositions ==
    {Vec(300000, 250000), Vec(300000, 300000), Vec(300000, 465205), Vec(443071, 382603)}

HandlerVelocities == {Vec(0, 0), Vec(100000, -200000)}

\* the stored radius is the configured one, or still the default one after
\* a move of the ball-size slider
HandlerBalls(cfg) ==
    {[position |-> p, velocity |-> v, radius |-> r] :
        p \in HandlerPositions, v \in HandlerVelocities,
        r \in {cfg.ballRadius, DEFAULT_CONFIG.ballRadius}}

\* canvas points clicked: two away from every ball, one on the start position
HandlerClickPoints ==
    {Vec(100 * SCALE, 50 * SCALE), Vec(300 * SCALE, 550 * SCALE), Vec(300000, 250000)}

InitHandlers ==
    /\ config \in HandlerConfigs
    /\ ball \in HandlerBalls(config)
    /\ isPaused \in BOOLEAN
    /\ rotation \in {0, 523599}
    /\ lastTime \in {0, 1000}
    /\ collisionCount = 0
    /\ frames = 0
    /\ clicks = 0
    /\ changes = 0
    /\ last = NoStep
    /\ statsPanel = MountedPanel
    /\ clock = ClockAtMount

NextHandlers ==
    \/ \E gap \in {5, 1000} : last = NoStep /\ Frame(gap)
    \/ \E click \in HandlerClickPoints : last = NoStep /\ Click(click)
    \/ \E value \in HostRotationSpeeds :
           last = NoStep /\ ConfigChange("rotationSpeed", value)
    \/ \E value \in {100 * SCALE, 280 * SCALE} :
           last = NoStep /\ ConfigChange("hexagonRadius", value)
    \/ \E value \in {4 * SCALE, 20 * SCALE} :
           last = NoStep /\ ConfigChange("ballRadius", value)
    \/ last = NoStep /\ ResetBall
    \/ last = NoStep /\ TogglePause

SpecHandlers == InitHandlers /\ [][NextHandlers]_vars

(***************************************************************************)
(* The statistics panel beside a short game: the wall clock advances, the  *)
(* host plays frames and is paused and resumed, and the panel is rendered  *)
(* in between.  requestAnimationFrame timestamps and Date.now() are two    *)
(* clocks in the source, so frames and the wall clock advance separately.  *)
(* A render takes far less than a step of the wall clock, so the clock and *)
(* the host move only when the panel is settled.                           *)
(***************************************************************************)
MaxStatsFrames == 2

ElapseSteps == {1000}

StatsFrameGaps == {16}

\* the ball at its start, and a ball that touches the bottom wall
StatsBalls ==
    {createBall(StartPosition(DEFAULT_CONFIG).x, StartPosition(DEFAULT_CONFIG).y,
                DEFAULT_CONFIG.ballRadius),
     [position |-> Vec(300000, 465205), velocity |-> Vec(100000, 200000),
      radius |-> DEFAULT_CONFIG.ballRadius]}

InitStats ==
    /\ config = DEFAULT_CONFIG
    /\ ball \in StatsBalls
    /\ isPaused = FALSE
    /\ rotation = 0
    /\ lastTime = 0
    /\ collisionCount = 0
    /\ frames = 0
    /\ clicks = 0
    /\ changes = 0
    /\ last = NoStep
    /\ statsPanel = MountedPanel
    /\ clock = ClockAtMount

NextStats ==
    \/ \E d \in ElapseSteps : Settled /\ Elapse(d)
    \/ PanelCommit
    \/ \E gap \in StatsFrameGaps : Settled /\ frames < MaxStatsFrames /\ Frame(gap)
    \/ Settled /\ TogglePause

SpecStats == InitStats /\ [][NextStats]_vars

----------------------------------------------------------------------------
(* Properties                                                              *)

\* the last step was an unpaused tick that detected a collision and resolved it
TickResolved == last.op = "tick" /\ last.collision.hasCollision

\* the last step was a call of handleWallCollision that did not return early
Resolved == last.op = "resolve" /\ last.distance <= last.ball.radius

\* the distance passed to the last call of handleWallCollision is the distance
\* of the ball from the wall
Measured ==
    last.distance =
        pointToLineSegmentDistance(last.ball.position, last.wallStart, last.wallEnd)

\* the normal handleWallCollision used in its last call
UsedNormal == OrientedNormal(last.ball, last.wallStart, last.wallEnd)

\* the vector from the wall's midpoint to the ball in the last call
BallDirection ==
    VectorSubtract(last.ball.position, WallMidpoint(last.wallStart, last.wallEnd))

\* the unit vector along the wall, a quarter turn from the normal
Tangent(normal) == Vec(-normal.y, normal.x)

\* twice the kinetic energy per unit mass (px^2/s^2, three decimals)
Energy(velocity) == Mul3(velocity.x, velocity.x) + Mul3(velocity.y, velocity.y)

\* C1: after every unpaused tick the stored ball has its center inside the
\* current rotated hexagon.
C1_BallStaysInside ==
    last.op = "tick" =>
        isPointInsideHexagon(ball.position, HexagonCenter(config),
                             config.hexagonRadius, rotation)

\* C2: when handleWallCollision is called on a wall of positive length with
\* the measured distance of the ball from the wall, and that distance is at
\* most the radius, the returned ball is at least its radius away from the
\* same wall (also when the closest point of the wall is one of its ends).
C2_ResolvedWallNotPenetrated ==
    (Resolved /\ Measured /\ last.wallStart # last.wallEnd) =>
        pointToLineSegmentDistance(ball.position, last.wallStart, last.wallEnd)
            >= last.ball.radius - Tol

\* C3: after a tick that detected and resolved a collision, the stored ball is
\* at least its radius away from every edge of the same hexagon.
C3_NoEdgePenetratedAfterTick ==
    TickResolved =>
        checkHexagonCollision(ball.position, ball.radius, HexagonCenter(config),
                              config.hexagonRadius, rotation).distance
            >= ball.radius - Tol

\* C4: in every call of handleWallCollision made by the game loop, the oriented
\* normal has a positive dot product with hexagonCenter - wallMidpoint.
C4_NormalPointsInside ==
    TickResolved =>
        VectorDot(VectorSubtract(HexagonCenter(config),
                      WallMidpoint(last.collision.wallStart, last.collision.wallEnd)),
                  OrientedNormal(last.updatedBall, last.collision.wallStart,
                                 last.collision.wallEnd)) > 0

\* C5: in every call of handleWallCollision with distance <= radius, the normal
\* used (the one the position correction follows) has a non-negative dot
\* product with ball.position - wallMidpoint.
C5_NormalTowardBall ==
    Resolved =>
        /\ VectorDot(BallDirection, UsedNormal) >= 0
        /\ ball.position = CorrectedPosition(last.ball, UsedNormal, last.distance)

\* a call in which the raw perpendicular of the wall points away from the ball
C5_Witness ==
    /\ Resolved
    /\ VectorDot(BallDirection, WallNormal(last.wallStart, last.wallEnd)) < 0

\* C6: for every ball, wall (also of length zero) and distance, the speed of
\* the returned ball is at most the speed of the ball passed.
C6_SpeedNotIncreased ==
    last.op = "resolve" =>
        VectorMagnitude(ball.velocity) <= VectorMagnitude(last.ball.velocity)

\* a moving ball resolved against a wall of length zero, slower afterwards
C6_Witness ==
    /\ Resolved
    /\ last.wallStart = last.wallEnd
    /\ VectorMagnitude(ball.velocity) < VectorMagnitude(last.ball.velocity)

\* C7: after a call with distance <= radius on a wall of positive length, the
\* velocity along the normal is -0.85 times the incoming one, the velocity
\* along the wall is 0.85 times the incoming one, and the position is
\* unchanged when distance = radius.
C7_ReflectionLaw ==
    (Resolved /\ last.wallStart # last.wallEnd) =>
        /\ Abs(VectorDot(ball.velocity, UsedNormal)
               + Mul3(VectorDot(last.ball.velocity, UsedNormal), BOUNCE_DAMPING)) <= Tol
        /\ Abs(VectorDot(ball.velocity, Tangent(UsedNormal))
               - Mul3(VectorDot(last.ball.velocity, Tangent(UsedNormal)), BOUNCE_DAMPING))
              <= Tol
        /\ last.distance = last.ball.radius => ball.position = last.ball.position

\* a ball touching a slanted wall (distance = radius) with velocity both along
\* the normal and along the wall
C7_Witness ==
    /\ Resolved
    /\ Measured
    /\ last.distance = last.ball.radius
    /\ last.wallStart.x # last.wallEnd.x
    /\ last.wallStart.y # last.wallEnd.y
    /\ VectorDot(last.ball.velocity, UsedNormal) # 0
    /\ VectorDot(last.ball.velocity, Tangent(UsedNormal)) # 0

\* C8: after a call with distance <= radius on a wall of positive length, the
\* kinetic energy of the returned ball is 85% of that of the ball passed
\* (within 1% of the latter).
C8_EnergyLoss15Percent ==
    (Resolved /\ last.wallStart # last.wallEnd) =>
        Abs(Energy(ball.velocity) - Mul3(BOUNCE_DAMPING, Energy(last.ball.velocity)))
            <= Mul3(10, Energy(last.ball.velocity)) + Tol

\* C9: a call with distance > radius returns the ball with position, velocity
\* and radius unchanged.
C9_NoOpWhenFar ==
    (last.op = "resolve" /\ last.distance > last.ball.radius) => ball = last.ball

\* a moving ball farther from the wall than its radius, passed with its
\* measured distance
C9_Witness ==
    /\ last.op = "resolve"
    /\ Measured
    /\ last.distance > last.ball.radius
    /\ last.ball.velocity # Vec(0, 0)
    /\ ball = last.ball

\* some edge of the sequence edges is within radius of the point
SomeEdgeWithin(point, radius, edges) ==
    \E k \in DOMAIN edges :
        pointToLineSegmentDistance(point, edges[k].start, edges[k].end) <= radius

\* C10: checkHexagonCollision reports hasCollision exactly when the least
\* distance from the ball to the six edges of the rotated hexagon is at most
\* the ball radius.
C10_CollisionIffWithinRadius ==
    last.op = "detect" =>
        (last.collision.hasCollision <=>
            SomeEdgeWithin(ball.position, ball.radius,
                getHexagonEdges(generateHexagonVertices(HexagonCenter(config).x,
                    HexagonCenter(config).y, config.hexagonRadius, rotation))))

\* a ball exactly its radius away from the nearest edge, reported as colliding
C10_Witness ==
    /\ last.op = "detect"
    /\ last.collision.distance = ball.radius
    /\ last.collision.hasCollision

\* the hexagon edges of the configuration at the current rotation
CurrentEdges ==
    getHexagonEdges(generateHexagonVertices(HexagonCenter(config).x,
        HexagonCenter(config).y, config.hexagonRadius, rotation))

\* the distance from the point to edge k of the sequence edges
EdgeDistance(point, edges, k) ==
    pointToLineSegmentDistance(point, edges[k].start, edges[k].end)

\* edge k is the first of the edges at the least distance from the point,
\* and the collision result carries that distance and that edge
CarriesEdge(collision, point, edges, k) ==
    /\ collision.distance = EdgeDistance(point, edges, k)
    /\ collision.wallStart = edges[k].start
    /\ collision.wallEnd = edges[k].end
    /\ \A j \in DOMAIN edges :
          /\ EdgeDistance(point, edges, j) >= collision.distance
          /\ j < k => EdgeDistance(point, edges, j) > collision.distance

\* the collision result carries the first nearest edge of the edges
CarriesNearest(collision, point, edges) ==
    /\ Len(edges) = 6
    /\ ~collision.inf
    /\ \E k \in DOMAIN edges : CarriesEdge(collision, point, edges, k)

\* C11: the result of checkHexagonCollision carries the least distance over
\* the six edges and the ends of the first edge in vertex order at that
\* distance, whether or not hasCollision is true.
C11_ResultCarriesNearestWall ==
    last.op = "detect" => CarriesNearest(last.collision, ball.position, CurrentEdges)

\* two edges at the same least distance from a ball that does not collide
C11_Witness ==
    /\ last.op = "detect"
    /\ ~last.collision.hasCollision
    /\ \E j, k \in 1..6 :
          /\ j < k
          /\ EdgeDistance(ball.position, CurrentEdges, j) = last.collision.distance
          /\ EdgeDistance(ball.position, CurrentEdges, k) = last.collision.distance

\* the reference integrator: the velocity after gravity and friction
EulerVelocity(velocity, deltaTime) ==
    Vec(Mul3(velocity.x, FRICTION),
        Mul3(velocity.y + Mul3(GRAVITY, deltaTime), FRICTION))

\* the reference integrator: a velocity slower than MIN_VELOCITY snaps to zero
EulerSnap(v1) ==
    IF Sqrt3(Mul3(v1.x, v1.x) + Mul3(v1.y, v1.y)) < MIN_VELOCITY THEN Vec(0, 0) ELSE v1

\* the reference integrator: the ball moved by the updated velocity v2
EulerBall(before, v2, deltaTime) ==
    [position |-> Vec(before.position.x + Mul3(v2.x, deltaTime),
                      before.position.y + Mul3(v2.y, deltaTime)),
     velocity |-> v2,
     radius |-> before.radius]

\* C12: updateBallPhysics(ball, dt) is the semi-implicit Euler step: velocity
\* (v + (0, 500) * dt) * 0.98, snapped to (0, 0) below 0.1, position advanced
\* by the updated velocity, radius kept; a ball at rest at (300, 300) stepped
\* with dt = 0.016 gets velocity.y > 0 and position.y > 300.
C12_SemiImplicitEuler ==
    last.op = "step" =>
        /\ ball = EulerBall(last.ball,
                       EulerSnap(EulerVelocity(last.ball.velocity, last.deltaTime)),
                       last.deltaTime)
        /\ (/\ last.ball.position = Vec(300 * SCALE, 300 * SCALE)
            /\ last.ball.velocity = Vec(0, 0)
            /\ last.deltaTime = 16)
           => (ball.velocity.y > 0 /\ ball.position.y > 300 * SCALE)

\* a moving ball stepped with dt = 0.016 whose velocity changes and is not
\* snapped to zero
C12_Witness ==
    /\ last.op = "step"
    /\ last.deltaTime = 16
    /\ last.ball.velocity.x # 0
    /\ ball.velocity # Vec(0, 0)
    /\ ball.velocity # last.ball.velocity
    /\ ball.position.x # last.ball.position.x

\* a candidate for the maximum speed: the impulses of all clicks but one
SpeedCeiling == (MaxClicks - 1) * 300 * SCALE

\* C13: the velocity returned by updateBallPhysics never exceeds a fixed
\* maximum speed, whatever ticks and clicks came before.
C13_SpeedBelowCeiling ==
    last.op = "tick" => VectorMagnitude(last.updatedBall.velocity) <= SpeedCeiling

\* one call at rest: the speed does not grow, the position stays, a ball with
\* velocity (0, 0) comes back identical, and a ball slower than MIN_VELOCITY
\* comes back with velocity (0, 0)
RestCall(before, after) ==
    /\ VectorMagnitude(after.velocity) <= VectorMagnitude(before.velocity)
    /\ after.position = before.position
    /\ before.velocity = Vec(0, 0) => after = before
    /\ VectorMagnitude(before.velocity) < MIN_VELOCITY => after.velocity = Vec(0, 0)

\* C14: with deltaTime = 0, repeated calls of updateBallPhysics never increase
\* the speed, never change the position, return an identical ball once the
\* velocity is (0, 0), bring a ball slower than MIN_VELOCITY to (0, 0) in one
\* call, and reach velocity (0, 0) after finitely many calls.
C14_ComesToRest ==
    /\ [](last.op = "rest" => RestCall(last.ball, ball))
    /\ <>(ball.velocity = Vec(0, 0))

\* a ball at or above MIN_VELOCITY that the call brings to velocity (0, 0)
C14_Witness ==
    /\ last.op = "rest"
    /\ VectorMagnitude(last.ball.velocity) >= MIN_VELOCITY
    /\ ball.velocity = Vec(0, 0)
    /\ ball.position = Vec(300 * SCALE, 300 * SCALE)

\* the ball of the given radius at point lies entirely inside the hexagon
\* of the configuration, clear of every edge
Contained(point, radius) ==
    /\ isPointInsideHexagon(point, HexagonCenter(config), config.hexagonRadius, rotation)
    /\ \A k \in DOMAIN CurrentEdges : EdgeDistance(point, CurrentEdges, k) > radius

\* the ball at point leaves the hexagon: its center is outside or an edge
\* is nearer than the radius
Violating(point, radius) ==
    \/ ~isPointInsideHexagon(point, HexagonCenter(config), config.hexagonRadius, rotation)
    \/ \E k \in DOMAIN CurrentEdges : EdgeDistance(point, CurrentEdges, k) < radius

\* result is the point at distance safe from center on the ray through
\* point, which lies at distance far > 0 from center
OnRayAt(result, center, point, far, safe) ==
    /\ Abs(result.x - (center.x + Div3(Mul3(safe, point.x - center.x), far))) <= Tol
    /\ Abs(result.y - (center.y + Div3(Mul3(safe, point.y - center.y), far))) <= Tol

\* C15: constrainBallInsideHexagon moves every position at which the ball is
\* not entirely inside the hexagon (the hexagon center excepted) to the point
\* at distance hexagonRadius - ballRadius - 10 from the center on the ray
\* through the position, and returns every other position unchanged.
C15_ViolatingPositionCorrected ==
    last.op = "constrain" =>
        /\ Contained(last.position, ball.radius) => ball.position = last.position
        /\ (Violating(last.position, ball.radius) /\ last.position # HexagonCenter(config))
           => OnRayAt(ball.position, HexagonCenter(config), last.position,
                      VectorMagnitude(VectorSubtract(last.position, HexagonCenter(config))),
                      config.hexagonRadius - ball.radius - 10 * SCALE)

\* C16: the position constrainBallInsideHexagon returns lies inside the
\* hexagon, and checkHexagonCollision reports no collision there.
C16_ConstrainedInsideAndClear ==
    last.op = "constrain" =>
        /\ isPointInsideHexagon(ball.position, HexagonCenter(config),
                                config.hexagonRadius, rotation)
        /\ ~checkHexagonCollision(ball.position, ball.radius, HexagonCenter(config),
                                  config.hexagonRadius, rotation).hasCollision

\* the unit vector (six decimals) at each of the test angles, from tables
UnitAt(angle) ==
    CASE angle = 0 -> Vec(1000000, 0)
      [] angle = 20000 -> Vec(999800, 19999)
      [] angle = 523599 -> Vec(866025, 500000)
      [] angle = 1570796 -> Vec(0, 1000000)
      [] angle = 3141593 -> Vec(-1000000, 0)
      [] angle = -1047198 -> Vec(500000, -866025)
      [] angle = 6806784 -> Vec(866025, 500000)

\* vertex v lies at distance radius from center
OnCircle(v, center, radius) ==
    Abs(Hypot(v.x - center.x, v.y - center.y) - radius) <= Tol

\* vertex w follows vertex v by 60 degrees around center: the chord from v
\* to w has the length of the radius, and w lies on the side of growing
\* angles
SixtyDegreesOn(v, w, center, radius) ==
    /\ Abs(Hypot(w.x - v.x, w.y - v.y) - radius) <= Tol
    /\ Mul3(v.x - center.x, w.y - center.y) - Mul3(v.y - center.y, w.x - center.x) > 0

\* the vertices are six points on the circle, the first at the angle of the
\* rotation and each 60 degrees after the one before, the first after the last
RegularHexagon(vertices, center, radius, first) ==
    /\ Len(vertices) = 6
    /\ \A i \in 1..6 : OnCircle(vertices[i], center, radius)
    /\ Abs(vertices[1].x - (center.x + Mul6(radius, first.x))) <= Tol
    /\ Abs(vertices[1].y - (center.y + Mul6(radius, first.y))) <= Tol
    /\ \A i \in 1..6 : SixtyDegreesOn(vertices[i], vertices[(i % 6) + 1], center, radius)

\* C17: generateHexagonVertices returns exactly 6 points, each at distance
\* radius from the center, vertex 0 at the angle of the rotation and every
\* vertex 60 degrees after the one before it (vertex 0 after vertex 5).
C17_SixVerticesSixtyApart ==
    last.op = "vertices" =>
        RegularHexagon(last.vertices, last.center, last.radius, UnitAt(last.rotation))

\* a hexagon turned by 30 degrees, vertex 1 straight below the center
C17_Witness ==
    /\ last.op = "vertices"
    /\ last.rotation = 523599
    /\ Len(last.vertices) = 6
    /\ last.vertices[2].y > last.center.y
    /\ Abs(last.vertices[2].x - last.center.x) <= Tol

\* the distance from the point at (A, B) to the segment from (0, 0) to
\* (C, D), dot = (A, B) . (C, D), by the textbook cases: the nearer end when
\* the foot of the perpendicular is off the segment, else the distance to
\* the line, |(A, B) x (C, D)| / |(C, D)|
DistanceByCases(A, B, C, D, dot) ==
    IF C = 0 /\ D = 0 THEN Hypot(A, B)
    ELSE IF dot <= 0 THEN Hypot(A, B)
    ELSE IF dot >= Mul3(C, C) + Mul3(D, D) THEN Hypot(A - C, B - D)
    ELSE Div3(Abs(Mul3(A, D) - Mul3(B, C)), Hypot(C, D))

\* the distance from p to the closest point of the segment from a to b
ClosestDistance(p, a, b) ==
    DistanceByCases(p.x - a.x, p.y - a.y, b.x - a.x, b.y - a.y,
                    Mul3(p.x - a.x, b.x - a.x) + Mul3(p.y - a.y, b.y - a.y))

\* C18: pointToLineSegmentDistance(point, a, b) is the distance from point to
\* the closest point of the segment from a to b (a when the projection falls
\* before a, b when it falls after b, a itself when a = b); the point (0, 0)
\* is at distance 0 and (10, 0) at distance 10 from the segment (0, -5)-(0, 5).
C18_DistanceToClosestPoint ==
    last.op = "distance" =>
        /\ Abs(last.distance - ClosestDistance(last.point, last.lineStart, last.lineEnd)) <= Tol
        /\ (last.lineStart = Vec(0, -5000) /\ last.lineEnd = Vec(0, 5000)) =>
              /\ last.point = Vec(0, 0) => last.distance = 0
              /\ last.point = Vec(10000, 0) => last.distance = 10000

\* a point whose projection falls beyond the end of the segment: the
\* distance is the one to that end, (3, 9) to (0, 5)
C18_Witness ==
    /\ last.op = "distance"
    /\ last.point = Vec(3000, 9000)
    /\ last.lineEnd = Vec(0, 5000)
    /\ last.distance = 5000

\* some two of the vertices have the y coordinate y
TwoVerticesLevelWith(vertices, y) ==
    \E i, j \in DOMAIN vertices : i < j /\ vertices[i].y = y /\ vertices[j].y = y

\* C19: isPointInsideHexagon(center, center, radius, rotation) is true for
\* every radius and rotation, also when two vertices are level with the center.
C19_CenterIsInside ==
    (last.op = "inside" /\ last.point = last.center) => last.inside

\* the center of a hexagon with two vertices level with it, found inside
C19_Witness ==
    /\ last.op = "inside"
    /\ last.point = last.center
    /\ last.inside
    /\ TwoVerticesLevelWith(generateHexagonVertices(last.center.x, last.center.y,
                                                    last.radius, last.rotation),
                            last.center.y)

\* both coordinates of v are numbers
Finite(v) == v.x \in Int /\ v.y \in Int

\* isPointInsideHexagon, lines 187-190, divides by yj - yi only for an edge with
\* one end above the point and one not: no such edge has yj = yi
NoLevelEdgeDivides(point, edges) ==
    \A k \in DOMAIN edges :
        ((edges[k].start.y > point.y) # (edges[k].end.y > point.y))
            => edges[k].end.y # edges[k].start.y

\* the collision result names one of the edges, at a distance that is a number
NamesAnEdge(collision, edges) ==
    /\ ~collision.inf
    /\ collision.distance \in Nat
    /\ \E k \in DOMAIN edges :
           collision.wallStart = edges[k].start /\ collision.wallEnd = edges[k].end

\* C20: no core operation fails on degenerate input: the normal of a
\* zero-length wall is normalized to (0, 0) and handleWallCollision returns a
\* ball with finite position and velocity; pointToLineSegmentDistance on a
\* zero-length segment is the distance to its start; isPointInsideHexagon
\* divides by no yj - yi = 0; checkHexagonCollision names one of the six edges
\* at a finite distance.
C20_NoFailureOnDegenerateInput ==
    /\ (last.op = "resolve" /\ last.wallStart = last.wallEnd) =>
          /\ WallNormal(last.wallStart, last.wallEnd) = Vec(0, 0)
          /\ Finite(ball.position) /\ Finite(ball.velocity)
    /\ (last.op = "distance" /\ last.lineStart = last.lineEnd) =>
          last.distance = Hypot(last.point.x - last.lineStart.x,
                                last.point.y - last.lineStart.y)
    /\ last.op = "inside" =>
          NoLevelEdgeDivides(last.point,
              getHexagonEdges(generateHexagonVertices(last.center.x, last.center.y,
                                                      last.radius, last.rotation)))
    /\ last.op = "detect" => NamesAnEdge(last.collision, CurrentEdges)

\* a moving ball resolved against a wall of zero length that it touches
C20_Witness ==
    /\ last.op = "resolve"
    /\ last.wallStart = last.wallEnd
    /\ last.distance <= last.ball.radius
    /\ last.ball.velocity # Vec(0, 0)
    /\ ball.velocity # last.ball.velocity
    /\ ball.position = last.ball.position

\* a frame or a click taken while paused leaves the ball, the rotation and
\* the collision count as they are, and so does pressing pause or resume
PausedStep ==
    /\ (isPaused /\ (frames' # frames \/ clicks' # clicks)) =>
          /\ ball' = ball
          /\ rotation' = rotation
          /\ collisionCount' = collisionCount
    /\ isPaused' # isPaused => ball' = ball

C22_ResetToStart ==
    last.op = "reset" =>
        ball = [position |-> Vec(config.canvasWidth \div 2,
                                 config.canvasHeight \div 2 - 50 * SCALE),
                velocity |-> Vec(0, 0),
                radius |-> config.ballRadius]

\* a reset in the smallest hexagon with the largest ball, an edge straight
\* above the start position
C22_Witness ==
    /\ last.op = "reset"
    /\ config.hexagonRadius = 100 * SCALE
    /\ config.ballRadius = 20 * SCALE
    /\ rotation = 0
    /\ ball.position = Vec(300 * SCALE, 250 * SCALE)

\* impulse has the length 300 and the direction of toward
ImpulseAlong(impulse, toward) ==
    /\ Abs(VectorMagnitude(impulse) - 300 * SCALE) <= Tol
    /\ Abs(impulse.x - Div3(Mul3(300 * SCALE, toward.x), VectorMagnitude(toward))) <= Tol
    /\ Abs(impulse.y - Div3(Mul3(300 * SCALE, toward.y), VectorMagnitude(toward))) <= Tol

\* the last step was a click accepted while not paused
ClickAccepted == last.op = "click" /\ ~isPaused

\* the click left the position and the radius of the ball as they were
ClickKeepsPlace ==
    ball.position = last.prevBall.position /\ ball.radius = last.prevBall.radius

Integrated(prevBall, deltaTime) ==
    [position |-> updateBallPhysics(prevBall, deltaTime).position,
     velocity |-> updateBallPhysics(prevBall, deltaTime).velocity,
     radius |-> config.ballRadius]

\* the collision check of a tick on the integrated ball, at the rotation
\* the tick advanced to
Checked(integrated) ==
    checkHexagonCollision(integrated.position, integrated.radius,
                          HexagonCenter(config), config.hexagonRadius, rotation)

\* the ball a tick stores: the resolver's output on the integrated ball and
\* the reported wall and distance if a collision was reported, else the
\* integrated ball
Stored(integrated, collision) ==
    IF collision.hasCollision
    THEN handleWallCollision(integrated, collision.wallStart, collision.wallEnd,
                             collision.distance)
    ELSE integrated

\* C24: in every unpaused tick the rotation is advanced first, then
\* updateBallPhysics runs on the previous ball, then checkHexagonCollision
\* on the integrated ball with this tick's radius and rotation, and
\* handleWallCollision if and only if a collision was reported; the stored
\* ball is the resolver's output then and the integrator's output otherwise.
C24_TickOrder ==
    last.op = "tick" =>
        /\ rotation = last.prevRotation + config.rotationSpeed
        /\ last.updatedBall = Integrated(last.prevBall, last.deltaTime)
        /\ last.collision = Checked(last.updatedBall)
        /\ ball = Stored(last.updatedBall, last.collision)

\* a tick with time passing in which a collision was reported and resolved
C24_Witness ==
    /\ last.op = "tick"
    /\ last.deltaTime > 0
    /\ last.collision.hasCollision
    /\ last.updatedBall # last.prevBall
    /\ ball # last.updatedBall

\* C25: every deltaTime the game loop passes to updateBallPhysics lies in
\* [0, 0.016], whatever the gaps between the frame timestamps and whether
\* frames arrived while paused, and it is 0 on the first frame.
C25_DeltaTimeWithinFrame ==
    last.op = "tick" =>
        /\ 0 <= last.deltaTime
        /\ last.deltaTime <= 16
        /\ frames = 1 => last.deltaTime = 0

\* the third frame, a tick after two panel operations and a stall of a
\* second, with deltaTime at the cap
C25_Witness ==
    /\ last.op = "tick"
    /\ frames = 3
    /\ changes = 2
    /\ lastTime >= 1000
    /\ last.deltaTime = 16

\* C26: handleWallCollision never turns the ball toward the wall: when it
\* resolves a collision at the distance measured from the wall, the returned
\* velocity has no component against the normal that points from the wall
\* to the ball.
C26_NeverTowardWall ==
    (Resolved /\ Measured) => VectorDot(ball.velocity, UsedNormal) >= -Tol

\* the ball resetBall stores if Math.random returns the pair random
ResetWith(random) ==
    createBall(constrainBallInsideHexagon(StartPosition(config), config.ballRadius,
                   HexagonCenter(config), config.hexagonRadius, rotation, random).x,
               constrainBallInsideHexagon(StartPosition(config), config.ballRadius,
                   HexagonCenter(config), config.hexagonRadius, rotation, random).y,
               config.ballRadius)

\* a reset or a control-panel change stores the same ball whatever
\* Math.random would return, and a ball on the hexagon center is not
\* reported as colliding
DeterministicStep ==
    /\ ~checkHexagonCollision(HexagonCenter(config), config.ballRadius,
                              HexagonCenter(config), config.hexagonRadius,
                              rotation).hasCollision
    /\ last'.op = "reset" => \A random \in RandomPairs : ball' = ResetWith(random)
    /\ last'.op = "config" =>
          \A random \in RandomPairs :
              ball' = ConfigBall(ball, config', last'.key = "hexagonRadius",
                                 rotation, random)

\* C27: no call of constrainBallInsideHexagon made by resetBall or
\* handleConfigChange reaches the Math.random fallback: the stored ball does
\* not depend on the random numbers, because a ball centered on the hexagon
\* center is never reported as colliding.
C27_HostDeterministic == [][DeterministicStep]_vars

\* the hexagon-size slider moved to its smallest value with the largest
\* ball resting exactly on the hexagon center
C27_Witness ==
    /\ last.op = "config"
    /\ last.key = "hexagonRadius"
    /\ config.hexagonRadius = 100 * SCALE
    /\ ball.radius = 20 * SCALE
    /\ ball.position = HexagonCenter(config)

\* a control-panel change keeps the velocity, and the position too unless
\* it sets hexagonRadius; a tick, a reset and a hexagonRadius change store
\* a ball with the configured radius
PanelStep ==
    /\ last'.op = "config" =>
          /\ ball'.velocity = ball.velocity
          /\ last'.key # "hexagonRadius" => ball'.position = ball.position
          /\ last'.key = "hexagonRadius" => ball'.radius = config'.ballRadius
    /\ last'.op \in {"tick", "reset"} => ball'.radius = config'.ballRadius

\* C28: a rotationSpeed or ballRadius change leaves the ball's position and
\* velocity unchanged, a hexagonRadius change never modifies the velocity,
\* and after every tick, reset or hexagonRadius change the stored radius
\* equals config.ballRadius.
C28_PanelChangesKeepMotion == [][PanelStep]_vars

\* the ball-size slider moved under a moving ball, whose stored radius is not
\* the configured one until the next tick
C28_Witness ==
    /\ last.op = "config"
    /\ last.key = "ballRadius"
    /\ ball.velocity # Vec(0, 0)
    /\ ball.radius # config.ballRadius

\* the collision count grows by one in a tick that reported a collision and
\* stays as it is in every other step
CounterStep ==
    collisionCount' =
        IF last'.op = "tick" /\ last'.collision.hasCollision
        THEN collisionCount + 1
        ELSE collisionCount

\* C29: the collision counter never decreases: it grows by exactly 1 in each
\* unpaused tick in which checkHexagonCollision reports a collision and is
\* left unchanged by ticks without a collision, paused frames, clicks,
\* control-panel changes and reset.
C29_CounterCountsCollidingTicks == [][CounterStep]_vars

\* a tick that reported a collision and counted it
C29_Witness ==
    /\ last.op = "tick"
    /\ last.collision.hasCollision
    /\ collisionCount = 1

\* C30: the game time of the statistics panel counts only time spent
\* playing: time spent paused is never added, so once the panel has settled
\* totalTime never exceeds the time during which isPlaying was true.
C30_PausedTimeNeverAdded == Settled => statsPanel.stats.totalTime <= clock.played

====
